---- MODULE Spec2Model ----
(***************************************************************************)
(* A model of the two utility modules of python-helper-scripts:            *)
(*   helpers.py : uniformly_sample_array, bump_function                    *)
(*   mplwp.py   : remove_zeros, file_replace_d, postprocess                *)
(* Strings are sequences of one-character strings.  Rational arguments of  *)
(* the bump function are kept exact: an input is n + e*eps with n an       *)
(* integer and eps = 1e-6 the retry perturbation of rho.                   *)
(***************************************************************************)
EXTENDS Integers, Sequences, FiniteSets, TLC

VARIABLES
    \* helpers.uniformly_sample_array
    array, n_samples, sampled_x, sample_out,
    \* helpers.bump_function / rho
    inner_bound, outer_bound, rho_x, rho_kind, rho_out, retried,
    \* mplwp.remove_zeros on one d string
    d_in, d_out,
    \* mplwp.postprocess: the file system and each call's locals
    files, orig, pc, fname, text, tree, prev, runs, err

smpVars  == <<array, n_samples, sampled_x, sample_out>>
bumpVars == <<inner_bound, outer_bound, rho_x, rho_kind, rho_out, retried>>
trimVars == <<d_in, d_out>>
postVars == <<files, orig, pc, fname, text, tree, prev, runs, err>>
helperVars == <<smpVars, bumpVars, trimVars>>
vars     == <<smpVars, bumpVars, trimVars, postVars>>

-----------------------------------------------------------------------------
(* Bounds                                                                  *)

MaxLen    == 4      \* longest array handed to uniformly_sample_array
MaxBound  == 3      \* |inner_bound|, |outer_bound|, |x| of the bump function

-----------------------------------------------------------------------------
(* helpers.uniformly_sample_array                                          *)

Values == {0, 1}

Arrays == UNION {[1..l -> Values] : l \in 0..MaxLen}

Counts == -1..(MaxLen + 2)

\* Linspace as np.linspace(..., endpoint=False) would compute it.
LinspaceNoEndpoint(stop, num) ==
    IF num < 0 THEN [raised |-> TRUE, idx |-> <<>>]
    ELSE [raised |-> FALSE,
          idx |-> [i \in 1..num |-> ((i - 1) * stop) \div num]]

\* Linspace clamping a negative count to zero instead of raising.
LinspaceClamped(stop, num) ==
    IF num <= 0 THEN [raised |-> FALSE, idx |-> <<>>]
    ELSE IF num = 1 THEN [raised |-> FALSE, idx |-> <<0>>]
    ELSE [raised |-> FALSE,
          idx |-> [i \in 1..num |-> IF i = num THEN stop
                                    ELSE ((i - 1) * stop) \div (num - 1)]]

\* np.linspace(0, stop, num, dtype=int): the indices as computed by numpy;
\* num < 0 raises ValueError.  For num >= 2 the samples are
\* i * (stop / (num-1)), the last one is overwritten by stop, and the result
\* is floored.  (The float product agrees with the exact floor for every
\* length below 19.)
Linspace(stop, num) ==
    IF num < 0 THEN [raised |-> TRUE, idx |-> <<>>]
    ELSE IF num = 0 THEN [raised |-> FALSE, idx |-> <<>>]
    ELSE IF num = 1 THEN [raised |-> FALSE, idx |-> <<0>>]
    ELSE [raised |-> FALSE,
          idx |-> [i \in 1..num |-> IF i = num THEN stop
                                    ELSE ((i - 1) * stop) \div (num - 1)]]

\* array[indices]: numpy integer-array indexing; an index outside
\* -len..len-1 raises IndexError, a negative one counts from the end.
TakeIndices(arr, idx) ==
    IF \E i \in 1..Len(idx) : idx[i] >= Len(arr) \/ idx[i] < -Len(arr)
    THEN [raised |-> TRUE, val |-> <<>>]
    ELSE [raised |-> FALSE,
          val |-> [i \in 1..Len(idx) |->
                    arr[(IF idx[i] < 0 THEN idx[i] + Len(arr) ELSE idx[i]) + 1]]]

\* The whole call: how it ends, the indices drawn and the value returned.
uniformly_sample_array(arr, n) ==
    LET indices == Linspace(Len(arr) - 1, n)
    IN  IF indices.raised
        THEN [out |-> "ValueError", indices |-> <<>>, result |-> <<>>]
        ELSE LET r == TakeIndices(arr, indices.idx)
             IN  IF r.raised
                 THEN [out |-> "IndexError", indices |-> indices.idx, result |-> <<>>]
                 ELSE [out |-> "returned", indices |-> indices.idx, result |-> r.val]

SampleIdle == /\ array = <<>> /\ n_samples = 0
              /\ sampled_x = [indices |-> <<>>, result |-> <<>>]
              /\ sample_out = "idle"

SampleInit == /\ array \in Arrays
              /\ n_samples \in Counts
              /\ sampled_x = [indices |-> <<>>, result |-> <<>>]
              /\ sample_out = "pending"

CallSample ==
    /\ sample_out = "pending"
    /\ LET r == uniformly_sample_array(array, n_samples)
       IN  /\ sample_out' = r.out
           /\ sampled_x' = [indices |-> r.indices, result |-> r.result]
    /\ UNCHANGED <<array, n_samples, bumpVars, trimVars, postVars>>

-----------------------------------------------------------------------------
(* helpers.bump_function                                                   *)

Bounds == -MaxBound..MaxBound

Kinds == {"pyfloat", "ndarray"}

Sign(i) == IF i > 0 THEN 1 ELSE IF i < 0 THEN -1 ELSE 0

\* Sign of (n + e*eps)^2 - c^2 for integers n, c and e in {0,1}: the integer
\* part decides unless it vanishes, and then the sign is that of
\* e * (2*n*eps + eps^2).
SqDiffSign(n, e, c) ==
    IF n * n # c * c THEN Sign(n * n - c * c)
    ELSE IF e = 0 THEN 0
    ELSE IF n >= 0 THEN 1 ELSE -1

\* True when (n + e*eps)^2 - c^2 is of the order of eps.
SqDiffTiny(n, e, c) == n * n = c * c /\ e = 1

\* The argument t handed to f, as a class of extended reals.
\* num: sign of the numerator, tiny: numerator of order eps, den: sign of the
\* denominator (outer_bound**2 - inner_bound**2).
Quot(numSign, tiny, denSign) ==
    IF denSign = 0
    THEN (IF numSign > 0 THEN "+inf" ELSE IF numSign < 0 THEN "-inf" ELSE "nan")
    ELSE IF numSign = 0 THEN "zero"
    ELSE IF numSign * denSign < 0 THEN "neg"
    ELSE IF tiny THEN "tiny" ELSE "pos"

\* f = lambda x: np.where(x <= 0, 0, np.exp(-1/x)).  Both branches are
\* evaluated: -1/x on a Python float 0.0 raises ZeroDivisionError, on a
\* numpy value it is -inf.  exp(-1/x) underflows to 0.0 for x of order eps.
f(t, kind) ==
    IF t = "zero" THEN (IF kind = "pyfloat" THEN "ZeroDivisionError" ELSE "0")
    ELSE IF t \in {"neg", "-inf"} THEN "0"
    ELSE IF t = "tiny" THEN "0"
    ELSE IF t = "nan" THEN "nan"
    ELSE "pos"

\* g = lambda x: f(x) / (f(x) + f(1 - x)), a numpy division (0/0 is nan).
g(t, oneMinusT, kind) ==
    LET a == f(t, kind)
        b == f(oneMinusT, kind)
    IN  IF a = "ZeroDivisionError" \/ b = "ZeroDivisionError"
        THEN "ZeroDivisionError"
        ELSE IF a = "nan" \/ b = "nan" THEN "nan"
        ELSE IF a = "0" /\ b = "0" THEN "nan"
        ELSE IF a = "0" THEN "0"
        ELSE IF b = "0" THEN "1"
        ELSE "mid"

\* k(x) = h(x**2), h(y) = g((y - inner**2) / (outer**2 - inner**2)) at
\* x = n + e*eps.  A Python float divided by zero raises.
k(n, e, inner, outer, kind) ==
    LET den  == Sign(outer * outer - inner * inner)
        t    == Quot(SqDiffSign(n, e, inner), SqDiffTiny(n, e, inner), den)
        \* 1 - t = (outer**2 - x**2) / (outer**2 - inner**2)
        omt  == Quot(-SqDiffSign(n, e, outer), SqDiffTiny(n, e, outer), den)
    IN  IF den = 0 /\ kind = "pyfloat" THEN "ZeroDivisionError"
        ELSE g(t, omt, kind)

OneMinus(v) ==
    IF v = "0" THEN "1" ELSE IF v = "1" THEN "0" ELSE v

\* rho without the complement (the step function k itself).
rhoNoComplement(n, inner, outer, kind) ==
    LET first == k(n, 0, inner, outer, kind)
    IN  IF first # "ZeroDivisionError"
        THEN [value |-> first, retried |-> FALSE]
        ELSE [value |-> k(n, 1, inner, outer, kind), retried |-> TRUE]

\* rho: try 1 - k(x), except ZeroDivisionError: 1 - k(x + 1e-6).
rho(n, inner, outer, kind) ==
    LET first == k(n, 0, inner, outer, kind)
    IN  IF first # "ZeroDivisionError"
        THEN [value |-> OneMinus(first), retried |-> FALSE]
        ELSE [value |-> OneMinus(k(n, 1, inner, outer, kind)), retried |-> TRUE]

BumpIdle == /\ inner_bound = 0 /\ outer_bound = 0 /\ rho_x = 0
            /\ rho_kind = "pyfloat" /\ rho_out = "idle" /\ retried = FALSE

BumpInit == /\ inner_bound \in Bounds
            /\ outer_bound \in Bounds
            /\ rho_x = 0 /\ rho_kind = "pyfloat"
            /\ rho_out = "pending" /\ retried = FALSE

CallRho(x, kind) ==
    /\ rho_out = "pending"
    /\ LET r == rho(x, inner_bound, outer_bound, kind)
       IN  /\ rho_out' = r.value
           /\ retried' = r.retried
    /\ rho_x' = x
    /\ rho_kind' = kind
    /\ UNCHANGED <<inner_bound, outer_bound, smpVars, trimVars, postVars>>

-----------------------------------------------------------------------------
(* mplwp.remove_zeros: the rewrite of one d string                         *)

Digits == {"0", "1", "2", "3", "4", "5", "6", "7", "8", "9"}

\* [A-z]: the ASCII range 65..122, which holds the letters and the six
\* characters between Z and a (the backquote, code 96, cannot be written in
\* a string here and is left out).
Letters ==
    {"A", "B", "C", "D", "E", "F", "G", "H", "I", "J", "K", "L", "M",
     "N", "O", "P", "Q", "R", "S", "T", "U", "V", "W", "X", "Y", "Z",
     "[", "\\", "]", "^", "_",
     "a", "b", "c", "d", "e", "f", "g", "h", "i", "j", "k", "l", "m",
     "n", "o", "p", "q", "r", "s", "t", "u", "v", "w", "x", "y", "z"}

\* \s
Whitespace == {" ", "\t", "\n", "\r", "\f"}

\* The end (exclusive) of the longest run of characters of class C from i.
RunEnd(s, i, C) ==
    CHOOSE j \in i..(Len(s) + 1) :
        /\ \A m \in i..(j - 1) : s[m] \in C
        /\ j = Len(s) + 1 \/ s[j] \notin C

\* (?=$|[^\d]) at position q
AtNonDigit(s, q) == q > Len(s) \/ s[q] \notin Digits

\* \.0+(?=$|[^\d]) matched with the dot at p: the end of the match, else 0.
ZeroFractionEnd(s, p) ==
    IF p > Len(s) \/ s[p] # "." THEN 0
    ELSE LET q == RunEnd(s, p + 1, {"0"})
         IN  IF q > p + 1 /\ AtNonDigit(s, q) THEN q ELSE 0

\* \.\d*[1-9]0+(?=$|[^\d]) matched with the dot at p: [end of the match,
\* index of the last significant digit], else end = 0.
TrailingZerosEnd(s, p) ==
    IF p > Len(s) \/ s[p] # "." THEN [end |-> 0, keep |-> 0]
    ELSE LET r  == RunEnd(s, p + 1, Digits)
             nz == {m \in (p + 1)..(r - 1) : s[m] # "0"}
         IN  IF nz # {} /\ s[r - 1] = "0"
             THEN [end |-> r, keep |-> CHOOSE m \in nz : \A o \in nz : o <= m]
             ELSE [end |-> 0, keep |-> 0]

\* A match of the pattern of the rule starting exactly at i:
\* [end (exclusive, 0 when there is none), repl (the replacement)].
\*   1: (\d+)\.0+(?=$|[^\d])                               -> \1
\*   2: \.0+(?=$|[^\d])                                    -> 0
\*   3: ((\d+\.\d*[1-9])|(\.\d*[1-9]))0+(?=$|[^\d])        -> \1
\*   4: ([A-z])(\S)                                        -> \1 \2
MatchAt(rule, s, i) ==
    LET none == [end |-> 0, repl |-> <<>>]
        p    == RunEnd(s, i, Digits)
    IN  CASE rule = 1 ->
                IF p > i /\ ZeroFractionEnd(s, p) # 0
                THEN [end |-> ZeroFractionEnd(s, p), repl |-> SubSeq(s, i, p - 1)]
                ELSE none
          [] rule = 2 ->
                IF ZeroFractionEnd(s, i) # 0
                THEN [end |-> ZeroFractionEnd(s, i), repl |-> <<"0">>]
                ELSE none
          [] rule = 3 ->
                LET m == TrailingZerosEnd(s, p)
                IN  IF m.end # 0
                    THEN [end |-> m.end, repl |-> SubSeq(s, i, m.keep)]
                    ELSE none
          [] rule = 4 ->
                IF s[i] \in Letters /\ i < Len(s) /\ s[i + 1] \notin Whitespace
                THEN [end |-> i + 2, repl |-> <<s[i], " ", s[i + 1]>>]
                ELSE none

\* re.sub(pattern, repl, s) from position i on: leftmost matches, each scan
\* resuming where the previous match ended.
RECURSIVE ReSub(_, _, _)
ReSub(rule, s, i) ==
    IF i > Len(s) THEN <<>>
    ELSE LET m == MatchAt(rule, s, i)
         IN  IF m.end = 0 THEN <<s[i]>> \o ReSub(rule, s, i + 1)
             ELSE m.repl \o ReSub(rule, s, m.end)

\* The rewrite without the rule for a bare zero fraction (rule 2).
RewriteDNoBareZero(d) == ReSub(4, ReSub(3, ReSub(1, d, 1), 1), 1)

\* The body of the try block of remove_zeros on a d string.
RewriteD(d) == ReSub(4, ReSub(3, ReSub(2, ReSub(1, d, 1), 1), 1), 1)

MaxDLen == 3    \* longest enumerated d string

DAlphabet == {"0", "1", "5", ".", " ", "M", "L"}

\* The d strings of the tests of the path trimming.
DExamples ==
    { <<"M","1","2",".","0","0","0"," ","3","0",".","5","0","0">>,
      <<".","0","0","0">>,
      <<"L","5","A","3">>,
      <<"1","2",".","2","0","3","0","0">> }

DStrings == DExamples \cup UNION {[1..l -> DAlphabet] : l \in 0..MaxDLen}

TrimIdle == d_in = <<>> /\ d_out = <<"idle">>

TrimInit == d_in \in DStrings /\ d_out = <<"pending">>

CallRewrite ==
    /\ d_out = <<"pending">>
    /\ d_out' = RewriteD(d_in)
    /\ UNCHANGED <<d_in, smpVars, bumpVars, postVars>>

-----------------------------------------------------------------------------
(* mplwp: SVG documents                                                    *)
(* An element is [tag, id, has_d, d, kids, text]; id numbers the root's    *)
(* original children (0 for an element postprocess creates).  A file is    *)
(* [wf, ns, width, height, children]: whether its text is well-formed XML, *)
(* whether the root declares a default namespace, the units of the root's  *)
(* width and height ("absent" when the attribute is missing) and the       *)
(* root's children.                                                        *)

MaxKids == 3    \* most children of the root in an initial file
MaxRuns == 2    \* most successive postprocess calls of one caller

Elem(tag, has_d, d, kids) ==
    [tag |-> tag, id |-> 0, has_d |-> has_d, d |-> d, kids |-> kids,
     text |-> <<>>]

PathD(d) == Elem("path", TRUE, d, <<>>)
PathNoD  == Elem("path", FALSE, <<>>, <<>>)

\* The children an initial file is built from.
Templates ==
    { PathD(<<"M","1",".","0","\n","L",".","5","0">>),
      PathNoD,
      Elem("defs", FALSE, <<>>, <<PathD(<<"L","5","A","3">>)>>),
      Elem("g", FALSE, <<>>,
           << Elem("g", FALSE, <<>>, <<PathD(<<"z","M","1",".","0","#">>)>>),
              PathNoD >>),
      Elem("rect", FALSE, <<>>, <<>>),
      Elem("clipPath", FALSE, <<>>, <<PathD(<<".","0","0","0","\n">>)>>) }

WithIds(ch) == [i \in 1..Len(ch) |-> [ch[i] EXCEPT !.id = i]]

ChildSeqs == UNION {[1..l -> Templates] : l \in 0..MaxKids}

RootAttrs ==
    { [wf |-> TRUE,  ns |-> TRUE,  width |-> "pt", height |-> "pt"],
      [wf |-> TRUE,  ns |-> TRUE,  width |-> "px", height |-> "px"],
      [wf |-> FALSE, ns |-> TRUE,  width |-> "pt", height |-> "pt"],
      [wf |-> TRUE,  ns |-> FALSE, width |-> "pt", height |-> "pt"],
      [wf |-> TRUE,  ns |-> TRUE,  width |-> "pt", height |-> "absent"] }

Document(a, ch) ==
    [wf |-> a.wf, ns |-> a.ns, width |-> a.width, height |-> a.height,
     children |-> WithIds(ch)]

InitDocuments == {Document(a, ch) : a \in RootAttrs, ch \in ChildSeqs}

NoDocument == [wf |-> FALSE, ns |-> FALSE, width |-> "absent",
               height |-> "absent", children |-> <<>>]

commons_website == "https://commons.wikimedia.org/wiki/File:"

ReplaceChar(str, old, new) ==
    [i \in 1..Len(str) |-> IF str[i] = old THEN new ELSE str[i]]

\* str.replace(old, new) inside every d="..." of the element and below it.
RECURSIVE ReplaceInElem(_, _, _)
ReplaceInElem(el, old, new) ==
    [el EXCEPT
        !.d = IF el.has_d THEN ReplaceChar(el.d, old, new) ELSE el.d,
        !.kids = [i \in 1..Len(el.kids) |-> ReplaceInElem(el.kids[i], old, new)]]

\* The text file_replace_d writes back for the text it read.
file_replace_d(doc, old, new) ==
    [doc EXCEPT !.children =
        [i \in 1..Len(doc.children) |-> ReplaceInElem(doc.children[i], old, new)]]

\* Attribute-value normalisation of the XML parser: a literal tab, newline
\* or carriage return inside an attribute value is read as a space.
RECURSIVE ParseElem(_)
ParseElem(el) ==
    [el EXCEPT
        !.d = [i \in 1..Len(el.d) |->
                 IF el.d[i] \in {"\t", "\n", "\r"} THEN " " ELSE el.d[i]],
        !.kids = [i \in 1..Len(el.kids) |-> ParseElem(el.kids[i])]]

\* etree.parse(...).getroot() and svg.nsmap[None]: the tree, or the error.
Parse(doc) ==
    IF ~doc.wf THEN [raised |-> "XMLSyntaxError", tree |-> NoDocument]
    ELSE IF ~doc.ns THEN [raised |-> "KeyError", tree |-> NoDocument]
    ELSE [raised |-> "",
          tree |-> [doc EXCEPT !.children =
                      [i \in 1..Len(doc.children) |-> ParseElem(doc.children[i])]]]

\* path.set("d", ...) of remove_zeros; a path without d makes re.sub raise
\* TypeError, which the except clause swallows.
TrimPath(el) == IF el.has_d THEN [el EXCEPT !.d = RewriteD(el.d)] ELSE el

\* remove_zeros recursing into g only.
RECURSIVE remove_zerosNoDefs(_)
remove_zerosNoDefs(kids) ==
    [i \in 1..Len(kids) |->
        IF kids[i].tag = "path" THEN TrimPath(kids[i])
        ELSE IF kids[i].tag = "g"
             THEN [kids[i] EXCEPT !.kids = remove_zerosNoDefs(kids[i].kids)]
             ELSE kids[i]]

\* remove_zeros(group, nsmap) on the children of group.
RECURSIVE remove_zeros(_)
remove_zeros(kids) ==
    [i \in 1..Len(kids) |->
        IF kids[i].tag = "path" THEN TrimPath(kids[i])
        ELSE IF kids[i].tag \in {"g", "defs"}
             THEN [kids[i] EXCEPT !.kids = remove_zeros(kids[i].kids)]
             ELSE kids[i]]

IsDefs(el) == el.tag = "defs"
NotDefs(el) == el.tag # "defs"

\* The sort with the definitions last.
DefsLast(kids) == SelectSeq(kids, NotDefs) \o SelectSeq(kids, IsDefs)

\* sorted(svg, key=lambda el: int(el.tag != nsmap+"defs")): a stable sort.
DefsFirst(kids) == SelectSeq(kids, IsDefs) \o SelectSeq(kids, NotDefs)

Title(name) ==
    [tag |-> "title", id |-> 0, has_d |-> FALSE, d |-> <<>>, kids |-> <<>>,
     text |-> <<name>>]

Desc(name) ==
    [tag |-> "desc", id |-> 0, has_d |-> FALSE, d |-> <<>>, kids |-> <<>>,
     text |-> <<commons_website, name,
                "\nPlot created with mplwp, the Matplotlib extension for Wikipedia plots.">>]

\* svg.get(variable).replace("pt", "px")
FixUnit(u) == IF u = "pt" THEN "px" ELSE u

\* Transform guarded against a second application: no title and desc are
\* added to a tree that starts with them.
TransformOnce(t, name) ==
    IF t.width = "absent" \/ t.height = "absent"
    THEN [raised |-> "AttributeError", tree |-> t]
    ELSE [raised |-> "",
          tree |-> [t EXCEPT
                      !.width = FixUnit(t.width),
                      !.height = FixUnit(t.height),
                      !.children =
                         IF Len(t.children) >= 2 /\ t.children[1].tag = "title"
                         THEN remove_zeros(t.children)
                         ELSE remove_zeros(<<Title(name), Desc(name)>>
                                           \o DefsFirst(t.children))]]

\* Lines 205-220 of postprocess on the parsed tree: the unit fix (an absent
\* width or height raises AttributeError), the reordering, the metadata
\* and the trimming.
Transform(t, name) ==
    IF t.width = "absent" \/ t.height = "absent"
    THEN [raised |-> "AttributeError", tree |-> t]
    ELSE [raised |-> "",
          tree |-> [t EXCEPT
                      !.width = FixUnit(t.width),
                      !.height = FixUnit(t.height),
                      !.children = remove_zeros(<<Title(name), Desc(name)>>
                                                \o DefsFirst(t.children))]]

-----------------------------------------------------------------------------
(* mplwp.postprocess as a process: each read and each write of the file is *)
(* one step.                                                               *)

\* The callers; one that makes no call stays "off".
Procs == {1, 2, 3}

\* Every call opening one shared scratch path.
OpenedFileShared(p) == "a.svg"

\* The path a call hands to open(): its own fname argument.
OpenedFile(p) == fname[p]

Call(p) ==
    /\ pc[p] \in {"idle", "returned"}
    /\ runs[p].left > 0
    /\ pc' = [pc EXCEPT ![p] = "hide_read"]
    /\ runs' = [runs EXCEPT ![p].left = @ - 1]
    /\ prev' = [prev EXCEPT ![p] = files[OpenedFile(p)]]
    /\ UNCHANGED <<files, orig, fname, text, tree, err, helperVars>>

\* file_replace_d, lines 186-187: with open(fname, "r") as f: text = f.read()
FrdRead(p) ==
    /\ pc[p] \in {"hide_read", "restore_read"}
    /\ text' = [text EXCEPT ![p] = files[OpenedFile(p)]]
    /\ pc' = [pc EXCEPT ![p] = IF pc[p] = "hide_read" THEN "hide_write"
                                                       ELSE "restore_write"]
    /\ UNCHANGED <<files, orig, fname, tree, prev, runs, err, helperVars>>

\* file_replace_d, lines 188-190: the substitution and the write.  The first
\* call hides newlines as "#", the second writes them back and returns.
FrdWrite(p) ==
    /\ pc[p] \in {"hide_write", "restore_write"}
    /\ files' = [files EXCEPT ![OpenedFile(p)] =
                   IF pc[p] = "hide_write"
                   THEN file_replace_d(text[p], "\n", "#")
                   ELSE file_replace_d(text[p], "#", "\n")]
    /\ pc' = [pc EXCEPT ![p] = IF pc[p] = "hide_write" THEN "parse"
                                                        ELSE "returned"]
    /\ runs' = [runs EXCEPT ![p].made = IF pc[p] = "hide_write" THEN @ ELSE @ + 1]
    /\ UNCHANGED <<orig, fname, text, tree, prev, err, helperVars>>

\* postprocess, lines 199-202
ParseFile(p) ==
    /\ pc[p] = "parse"
    /\ LET r == Parse(files[OpenedFile(p)])
       IN  IF r.raised # ""
           THEN /\ pc' = [pc EXCEPT ![p] = "raised"]
                /\ err' = [err EXCEPT ![p] = r.raised]
                /\ UNCHANGED tree
           ELSE /\ pc' = [pc EXCEPT ![p] = "mutate"]
                /\ tree' = [tree EXCEPT ![p] = r.tree]
                /\ UNCHANGED err
    /\ UNCHANGED <<files, orig, fname, text, prev, runs, helperVars>>

\* postprocess, lines 205-220
Mutate(p) ==
    /\ pc[p] = "mutate"
    /\ LET r == Transform(tree[p], fname[p])
       IN  IF r.raised # ""
           THEN /\ pc' = [pc EXCEPT ![p] = "raised"]
                /\ err' = [err EXCEPT ![p] = r.raised]
                /\ UNCHANGED tree
           ELSE /\ pc' = [pc EXCEPT ![p] = "write"]
                /\ tree' = [tree EXCEPT ![p] = r.tree]
                /\ UNCHANGED err
    /\ UNCHANGED <<files, orig, fname, text, prev, runs, helperVars>>

\* postprocess, lines 223-225
WriteBack(p) ==
    /\ pc[p] = "write"
    /\ files' = [files EXCEPT ![OpenedFile(p)] = tree[p]]
    /\ pc' = [pc EXCEPT ![p] = "restore_read"]
    /\ UNCHANGED <<orig, fname, text, tree, prev, runs, err, helperVars>>

PostIdle == /\ files = <<>> /\ orig = <<>> /\ pc = <<>> /\ fname = <<>>
            /\ text = <<>> /\ tree = <<>> /\ prev = <<>> /\ runs = <<>>
            /\ err = <<>>

\* One caller calling postprocess("a.svg") up to MaxRuns times in a row.
PostInit ==
    /\ files \in [{"a.svg"} -> InitDocuments]
    /\ orig = files
    /\ pc = [p \in Procs |-> IF p = 1 THEN "idle" ELSE "off"]
    /\ fname = [p \in Procs |-> "a.svg"]
    /\ text = [p \in Procs |-> NoDocument]
    /\ tree = [p \in Procs |-> NoDocument]
    /\ prev = [p \in Procs |-> NoDocument]
    /\ runs = [p \in Procs |-> [left |-> IF p = 1 THEN MaxRuns ELSE 0, made |-> 0]]
    /\ err = [p \in Procs |-> ""]

\* The documents of the concurrent calls.
ConcDocuments ==
    { Document([wf |-> TRUE, ns |-> TRUE, width |-> "pt", height |-> "pt"],
               << PathD(<<"M","1",".","0","\n","L",".","5","0">>),
                  Elem("defs", FALSE, <<>>, <<PathD(<<"L","5","A","3">>)>>) >>),
      Document([wf |-> TRUE, ns |-> TRUE, width |-> "px", height |-> "pt"],
               << Elem("g", FALSE, <<>>,
                       <<PathD(<<"z","M","1",".","0","#">>), PathNoD>>) >>),
      Document([wf |-> TRUE, ns |-> FALSE, width |-> "pt", height |-> "pt"],
               << PathD(<<"1",".","0","\n">>) >>) }

\* Three callers, one call each: 1 on a.svg, 3 on b.svg, 2 on either.
ConcInit ==
    /\ files \in [{"a.svg", "b.svg"} -> ConcDocuments]
    /\ orig = files
    /\ pc = [p \in Procs |-> "idle"]
    /\ fname \in {[p \in Procs |-> IF p = 1 THEN "a.svg"
                                   ELSE IF p = 3 THEN "b.svg" ELSE second] :
                  second \in {"a.svg", "b.svg"}}
    /\ text = [p \in Procs |-> NoDocument]
    /\ tree = [p \in Procs |-> NoDocument]
    /\ prev = [p \in Procs |-> NoDocument]
    /\ runs = [p \in Procs |-> [left |-> 1, made |-> 0]]
    /\ err = [p \in Procs |-> ""]

-----------------------------------------------------------------------------
(* Specifications                                                          *)

InitSample == SampleInit /\ BumpIdle /\ TrimIdle /\ PostIdle
NextSample == CallSample
SpecSample == InitSample /\ [][NextSample]_vars

InitBump == SampleIdle /\ BumpInit /\ TrimIdle /\ PostIdle
NextBump == \E x \in Bounds, kind \in Kinds : CallRho(x, kind)
SpecBump == InitBump /\ [][NextBump]_vars

InitTrim == SampleIdle /\ BumpIdle /\ TrimInit /\ PostIdle
NextTrim == CallRewrite
SpecTrim == InitTrim /\ [][NextTrim]_vars

InitPost == SampleIdle /\ BumpIdle /\ TrimIdle /\ PostInit
NextPost ==
    \E p \in Procs :
        \/ Call(p) \/ FrdRead(p) \/ FrdWrite(p)
        \/ ParseFile(p) \/ Mutate(p) \/ WriteBack(p)
SpecPost == InitPost /\ [][NextPost]_vars

InitConc == SampleIdle /\ BumpIdle /\ TrimIdle /\ ConcInit
SpecConc == InitConc /\ [][NextPost]_vars

-----------------------------------------------------------------------------
(* Claims about helpers.py                                                 *)

Abs(i) == IF i < 0 THEN -i ELSE i

InRange == Len(array) >= 1 /\ 1 <= n_samples /\ n_samples <= Len(array)

NonDecreasing(s) == \A i \in 1..(Len(s) - 1) : s[i] <= s[i + 1]

\* C4 (as stated): for every array of length L >= 1 and 1 <= n <= L the call
\* returns exactly n elements, the first is A[0], the last is A[L-1], and the
\* source indices are non-decreasing.
C4_FirstAndLastAlways ==
    (sample_out # "pending" /\ InRange) =>
        /\ sample_out = "returned"
        /\ Len(sampled_x.result) = n_samples
        /\ sampled_x.result[1] = array[1]
        /\ sampled_x.result[n_samples] = array[Len(array)]
        /\ NonDecreasing(sampled_x.indices)

\* C4 (amended): as above, but the last element is A[L-1] only for n >= 2;
\* for n = 1 the single element returned is A[0].
C4_FirstAndLastFromTwo ==
    (sample_out # "pending" /\ InRange) =>
        /\ sample_out = "returned"
        /\ Len(sampled_x.result) = n_samples
        /\ sampled_x.indices[1] = 0
        /\ sampled_x.result[1] = array[1]
        /\ NonDecreasing(sampled_x.indices)
        /\ n_samples >= 2 =>
              /\ sampled_x.indices[n_samples] = Len(array) - 1
              /\ sampled_x.result[n_samples] = array[Len(array)]
        /\ n_samples = 1 => sampled_x.result = <<array[1]>>

C4_Witness ==
    /\ sample_out = "returned" /\ InRange
    /\ n_samples >= 3 /\ n_samples < Len(array)
    /\ array[1] # array[Len(array)]
    /\ sampled_x.result[n_samples] = array[Len(array)]

\* C5 (as stated): the call fails with an index/shape error, returning no
\* result, whenever n > len(A) or n < 1.
C5_OutOfRangeFails ==
    (sample_out # "pending" /\ (n_samples > Len(array) \/ n_samples < 1)) =>
        sample_out \in {"IndexError", "ValueError"}

\* C5 (amended): the call fails (ValueError) whenever n < 0, and with an
\* IndexError when A is empty and n >= 1; for n = 0 it returns an empty
\* result, and for n > len(A) >= 1 it returns n elements drawn at
\* non-decreasing, repeated indices of A.
C5_OnlyNegativeOrEmptyFails ==
    sample_out # "pending" =>
        /\ n_samples < 0 => sample_out = "ValueError"
        /\ (n_samples >= 1 /\ Len(array) = 0) => sample_out = "IndexError"
        /\ n_samples = 0 => (sample_out = "returned" /\ sampled_x.result = <<>>)
        /\ (n_samples > Len(array) /\ Len(array) >= 1) =>
              /\ sample_out = "returned"
              /\ Len(sampled_x.result) = n_samples
              /\ NonDecreasing(sampled_x.indices)
              /\ \A i \in 1..n_samples :
                    /\ sampled_x.indices[i] \in 0..(Len(array) - 1)
                    /\ sampled_x.result[i] = array[sampled_x.indices[i] + 1]

C5_Witness ==
    /\ sample_out = "returned"
    /\ Len(array) >= 2 /\ n_samples > Len(array)
    /\ Len(sampled_x.result) = n_samples

\* C6 (as stated): for all inner_bound < outer_bound, rho(x) = 1 whenever
\* |x| <= inner_bound and rho(x) = 0 whenever |x| >= outer_bound.
C6_PlateauAndTail ==
    (rho_out # "pending" /\ inner_bound < outer_bound) =>
        /\ Abs(rho_x) <= inner_bound => rho_out = "1"
        /\ Abs(rho_x) >= outer_bound => rho_out = "0"

\* C6 (amended): the same for all bounds with |inner_bound| < outer_bound.
C6_PlateauAndTailRadii ==
    (rho_out # "pending" /\ Abs(inner_bound) < outer_bound) =>
        /\ Abs(rho_x) <= inner_bound => rho_out = "1"
        /\ Abs(rho_x) >= outer_bound => rho_out = "0"

C6_Witness ==
    /\ rho_out = "0" /\ rho_kind = "pyfloat" /\ retried
    /\ 0 < inner_bound /\ inner_bound < outer_bound
    /\ rho_x = -outer_bound

\* C7: with inner_bound = outer_bound no evaluation of rho ends in a
\* division-by-zero error: the retry at x + 1e-6 returns a value.
C7_RetryRecovers ==
    (rho_out # "pending" /\ inner_bound = outer_bound) =>
        rho_out # "ZeroDivisionError"

-----------------------------------------------------------------------------
(* Claims about mplwp.py                                                   *)

Example1 == <<"M","1","2",".","0","0","0"," ","3","0",".","5","0","0">>
Example2 == <<".","0","0","0">>
Example3 == <<"L","5","A","3">>

\* C9 (as stated): the rewrite maps "M12.000 30.500" to "M12 30.5", ".000"
\* to "0" and "L5A3" to "L 5A 3".
C9_Examples ==
    d_out # <<"pending">> =>
        /\ d_in = Example1 => d_out = <<"M","1","2"," ","3","0",".","5">>
        /\ d_in = Example2 => d_out = <<"0">>
        /\ d_in = Example3 => d_out = <<"L"," ","5","A"," ","3">>

\* C9 (amended): the rewrite maps "M12.000 30.500" to "M 12 30.5" (rule d
\* puts a space after the M as well), ".000" to "0" and "L5A3" to "L 5A 3".
C9_ExamplesSpaced ==
    d_out # <<"pending">> =>
        /\ d_in = Example1 => d_out = <<"M"," ","1","2"," ","3","0",".","5">>
        /\ d_in = Example2 => d_out = <<"0">>
        /\ d_in = Example3 => d_out = <<"L"," ","5","A"," ","3">>

C9_Witness ==
    d_in = Example1 /\ d_out = <<"M"," ","1","2"," ","3","0",".","5">>

Succeeded(p) == pc[p] = "returned"

\* What identifies a child of the root, whatever its path data.
Key(el) == [tag |-> el.tag, id |-> el.id, text |-> el.text,
            has_d |-> el.has_d, nkids |-> Len(el.kids)]

\* Where the i-th child must end among the reordered original children:
\* the definitions first, each group in its original order.
NewIndex(old, i) ==
    LET defs == {j \in 1..Len(old) : old[j].tag = "defs"}
    IN  IF i \in defs THEN Cardinality({j \in defs : j <= i})
        ELSE Cardinality(defs) + Cardinality({j \in 1..i : j \notin defs})

Rest(new) == SubSeq(new, 3, Len(new))

CreditLine ==
    "\nPlot created with mplwp, the Matplotlib extension for Wikipedia plots."

StartsWithMetadata(new, name) ==
    /\ Len(new) >= 2
    /\ new[1].tag = "title" /\ new[1].text = <<name>>
    /\ new[2].tag = "desc"
    /\ new[2].text = <<"https://commons.wikimedia.org/wiki/File:", name, CreditLine>>

\* C1: when postprocess fails in the parse (malformed XML, or no default
\* namespace on the root) the file is what it was before the call.
C1_FailureLeavesFile ==
    \A p \in Procs :
        (pc[p] = "raised" /\ err[p] \in {"XMLSyntaxError", "KeyError"}) =>
            files[fname[p]] = prev[p]

\* C2: after a successful postprocess the root's children are a title (the
\* filename), a desc (base URL + filename + credit line), then the original
\* defs children in order, then the other original children in order; none
\* is lost or duplicated.
C2_ChildrenOrder ==
    \A p \in Procs :
        Succeeded(p) =>
            LET old == prev[p].children
                new == files[fname[p]].children
            IN  /\ StartsWithMetadata(new, fname[p])
                /\ Len(new) = Len(old) + 2
                /\ \A i \in 1..Len(old) :
                      Key(Rest(new)[NewIndex(old, i)]) = Key(old[i])

Tags(kids) == [i \in 1..Len(kids) |-> kids[i].tag]

C2_Witness ==
    /\ Succeeded(1)
    /\ Tags(prev[1].children) = <<"path", "defs", "g">>
    /\ Tags(files["a.svg"].children) = <<"title", "desc", "defs", "path", "g">>

\* The rewrite rules find nothing more to rewrite in any d string at or
\* below the element (on its newline-hidden form).
RECURSIVE AtFixedPoint(_)
AtFixedPoint(el) ==
    /\ el.has_d =>
          RewriteD(ReplaceChar(el.d, "\n", "#")) = ReplaceChar(el.d, "\n", "#")
    /\ \A i \in 1..Len(el.kids) : AtFixedPoint(el.kids[i])

\* C3 (as stated): a second postprocess on the output of a first one leaves
\* the file identical.
C3_Idempotent ==
    \A p \in Procs :
        (Succeeded(p) /\ runs[p].made >= 2) => files[fname[p]] = prev[p]

\* C3 (amended): a second postprocess on the output of a first one leaves
\* the root's width and height identical and prepends a further title and
\* desc, the defs children moving in front of the earlier pair; every child
\* of the first output is kept once, identical when the rewrite rules match
\* nothing more in its d strings.
C3_SecondRunPrepends ==
    \A p \in Procs :
        (Succeeded(p) /\ runs[p].made >= 2) =>
            LET old == prev[p].children
                new == files[fname[p]].children
            IN  /\ files[fname[p]].width = prev[p].width
                /\ files[fname[p]].height = prev[p].height
                /\ StartsWithMetadata(new, fname[p])
                /\ Len(new) = Len(old) + 2
                /\ \A i \in 1..Len(old) :
                      /\ Key(Rest(new)[NewIndex(old, i)]) = Key(old[i])
                      /\ AtFixedPoint(old[i]) =>
                            Rest(new)[NewIndex(old, i)] = old[i]

C3_Witness ==
    /\ Succeeded(1) /\ runs[1].made = 2
    /\ Tags(files["a.svg"].children)
          = <<"title", "desc", "defs", "title", "desc", "path">>
    /\ files["a.svg"].children[6] = prev[1].children[4]

RECURSIVE Positions(_)
Positions(kids) ==
    UNION { {<<i>>} \cup {<<i>> \o q : q \in Positions(kids[i].kids)} :
            i \in 1..Len(kids) }

RECURSIVE NodeAt(_, _)
NodeAt(kids, pos) ==
    IF Len(pos) = 1 THEN kids[pos[1]]
    ELSE NodeAt(kids[pos[1]].kids, Tail(pos))

\* Every proper ancestor of the position is a g or a defs.
ViaGroups(kids, pos) ==
    \A l \in 1..(Len(pos) - 1) :
        NodeAt(kids, SubSeq(pos, 1, l)).tag \in {"g", "defs"}

Normalised(d) ==
    [i \in 1..Len(d) |-> IF d[i] \in {"\t", "\n", "\r"} THEN " " ELSE d[i]]

Trimmed(d) ==
    ReplaceChar(RewriteD(Normalised(ReplaceChar(d, "\n", "#"))), "#", "\n")

\* C8: in the trimming, a path without d keeps its attributes, no error
\* reaches the caller of postprocess, and every other path reachable
\* through nested g and defs elements is rewritten.
C8_TrimmingIsPerPath ==
    \A p \in Procs :
        /\ pc[p] = "raised" =>
              \/ ~prev[p].wf \/ ~prev[p].ns
              \/ prev[p].width = "absent" \/ prev[p].height = "absent"
        /\ Succeeded(p) =>
              LET old == prev[p].children
                  new == Rest(files[fname[p]].children)
              IN  \A i \in 1..Len(old) :
                    LET o == <<old[i]>>
                        n == <<new[NewIndex(old, i)]>>
                    IN  \A pos \in Positions(o) :
                          (NodeAt(o, pos).tag = "path" /\ ViaGroups(o, pos)) =>
                             IF NodeAt(o, pos).has_d
                             THEN NodeAt(n, pos).d = Trimmed(NodeAt(o, pos).d)
                             ELSE NodeAt(n, pos) = NodeAt(o, pos)

C8_Witness ==
    /\ Succeeded(1) /\ runs[1].made = 1
    /\ Len(prev[1].children) = 2
    /\ prev[1].children[1].tag = "path" /\ ~prev[1].children[1].has_d
    /\ prev[1].children[2].tag = "defs"
    /\ files["a.svg"].children[4] = prev[1].children[1]
    /\ files["a.svg"].children[3].kids[1].d = <<"L"," ","5","A"," ","3">>

Finished(p) == pc[p] \in {"returned", "raised"}

\* The file a call running alone leaves behind.
SoloRun(doc, name) ==
    LET hidden == file_replace_d(doc, "\n", "#")
        parsed == Parse(hidden)
        done   == Transform(parsed.tree, name)
    IN  IF parsed.raised # "" \/ done.raised # "" THEN hidden
        ELSE file_replace_d(done.tree, "#", "\n")

Users(name) == {p \in Procs : fname[p] = name}

\* C10: calls interleaved at the granularity of their file reads and writes
\* are safe on different paths (a file only one call works on ends as after
\* a solo run of that call), while two calls on the same path can leave
\* content that differs from running them one after the other.
C10_DistinctPathsSafe ==
    \A name \in DOMAIN files :
        (Cardinality(Users(name)) = 1 /\ \A p \in Users(name) : Finished(p)) =>
            files[name] = SoloRun(orig[name], name)

C10_Witness ==
    /\ \A p \in Procs : Finished(p)
    /\ Users("a.svg") = {1, 2} /\ Users("b.svg") = {3}
    /\ pc[3] = "returned"
    /\ files["b.svg"] = SoloRun(orig["b.svg"], "b.svg")
    /\ files["b.svg"] # orig["b.svg"]
    /\ pc[1] = "returned" /\ pc[2] = "returned"
    /\ files["a.svg"] # SoloRun(SoloRun(orig["a.svg"], "a.svg"), "a.svg")

====
